---------------------------- MODULE Spec2Model ----------------------------
(***************************************************************************)
(* The ESG scoring and benchmark core of green-invest as a state machine:  *)
(* the SQLite store (a record of tables), the Integrator that fills it,    *)
(* the ESGScorer and the ESGBenchmarkGenerator.                            *)
(*                                                                         *)
(* Texts are sequences of one-character strings, so that lower(), strip()  *)
(* and the substring test `keyword in text` are computed character by      *)
(* character.  Python floats are modelled by exact rationals [num, den].   *)
(***************************************************************************)
EXTENDS Integers, Sequences, FiniteSets, TLC

(***************************************************************************)
(* Bounds of the model.                                                    *)
(***************************************************************************)
\* fragments concatenated into one blob (classification specification)
MaxFrags == 3

\* integrate_company_data calls in one behaviour
MaxIntegrations == 2

\* sentences in one blob (sentiment specification); more than one batch
MaxSentences == 11

(***************************************************************************)
(* Python helpers.                                                         *)
(***************************************************************************)
Min(a, b) == IF a <= b THEN a ELSE b

Max(a, b) == IF a >= b THEN a ELSE b

RECURSIVE Concat(_)
\* "".join(parts)
Concat(parts) ==
  IF parts = <<>> THEN <<>> ELSE Head(parts) \o Concat(Tail(parts))

RECURSIVE JoinWith(_, _)
\* sep.join(parts)
JoinWith(sep, parts) ==
  IF parts = <<>> THEN <<>>
  ELSE IF Len(parts) = 1 THEN Head(parts)
  ELSE Head(parts) \o sep \o JoinWith(sep, Tail(parts))

RECURSIVE SumSeq(_)
SumSeq(s) == IF s = <<>> THEN 0 ELSE Head(s) + SumSeq(Tail(s))

UpperToLower ==
  "A" :> "a" @@ "B" :> "b" @@ "C" :> "c" @@ "D" :> "d" @@ "E" :> "e" @@ "F" :> "f" @@ "G" :> "g" @@ "H" :> "h" @@ "I" :> "i" @@
  "J" :> "j" @@ "K" :> "k" @@ "L" :> "l" @@ "M" :> "m" @@ "N" :> "n" @@ "O" :> "o" @@ "P" :> "p" @@ "Q" :> "q" @@ "R" :> "r" @@
  "S" :> "s" @@ "T" :> "t" @@ "U" :> "u" @@ "V" :> "v" @@ "W" :> "w" @@ "X" :> "x" @@ "Y" :> "y" @@ "Z" :> "z"

\* str.lower(), one character
LowerChar(c) == IF c \in DOMAIN UpperToLower THEN UpperToLower[c] ELSE c

\* str.lower()
lower(text) == [i \in 1..Len(text) |-> LowerChar(text[i])]

Whitespace == {" ", "\n", "\t"}

\* str.strip(): the text between its first and last non-blank character
strip(text) ==
  LET inked == {i \in 1..Len(text) : text[i] \notin Whitespace}
  IN  IF inked = {} THEN <<>>
      ELSE SubSeq(text,
                  CHOOSE i \in inked : \A j \in inked : i <= j,
                  CHOOSE i \in inked : \A j \in inked : i >= j)

\* Python's `keyword in text`: keyword occurs as a substring of text
Contains(keyword, text) ==
  \E i \in 1..(Len(text) - Len(keyword) + 1) :
    /\ text[i] = keyword[1]
    /\ SubSeq(text, i, i + Len(keyword) - 1) = keyword

(***************************************************************************)
(* Exact rationals standing for Python floats.                             *)
(***************************************************************************)
Rat(n, d) == [num |-> n, den |-> d]

FromInt(n) == Rat(n, 1)

REq(a, b) == a.num * b.den = b.num * a.den

RSub(a, b) == Rat(a.num * b.den - b.num * a.den, a.den * b.den)

(***************************************************************************)
(* ESGScorer: the three keyword classifiers (esg_scorer.py 48-87).         *)
(***************************************************************************)
env_keywords ==
  << <<"c","l","i","m","a","t","e">>,
     <<"c","a","r","b","o","n">>,
     <<"e","m","i","s","s","i","o","n">>,
     <<"r","e","n","e","w","a","b","l","e">>,
     <<"s","u","s","t","a","i","n","a","b","l","e">>,
     <<"g","r","e","e","n">>,
     <<"e","n","v","i","r","o","n","m","e","n","t">>,
     <<"p","o","l","l","u","t","i","o","n">>,
     <<"w","a","s","t","e">>,
     <<"r","e","c","y","c","l","e">>,
     <<"e","n","e","r","g","y"," ","e","f","f","i","c","i","e","n","c","y">> >>

social_keywords ==
  << <<"d","i","v","e","r","s","i","t","y">>,
     <<"i","n","c","l","u","s","i","o","n">>,
     <<"c","o","m","m","u","n","i","t","y">>,
     <<"e","m","p","l","o","y","e","e">>,
     <<"h","u","m","a","n"," ","r","i","g","h","t","s">>,
     <<"f","a","i","r"," ","w","a","g","e">>,
     <<"h","e","a","l","t","h">>,
     <<"s","a","f","e","t","y">>,
     <<"w","e","l","f","a","r","e">>,
     <<"e","d","u","c","a","t","i","o","n">>,
     <<"t","r","a","i","n","i","n","g">>,
     <<"e","q","u","a","l","i","t","y">> >>

governance_keywords ==
  << <<"g","o","v","e","r","n","a","n","c","e">>,
     <<"b","o","a","r","d">>,
     <<"e","x","e","c","u","t","i","v","e">>,
     <<"c","o","m","p","l","i","a","n","c","e">>,
     <<"e","t","h","i","c","s">>,
     <<"r","i","s","k"," ","m","a","n","a","g","e","m","e","n","t">>,
     <<"t","r","a","n","s","p","a","r","e","n","c","y">>,
     <<"a","c","c","o","u","n","t","a","b","i","l","i","t","y">>,
     <<"s","h","a","r","e","h","o","l","d","e","r">>,
     <<"a","u","d","i","t">>,
     <<"c","o","m","p","e","n","s","a","t","i","o","n">>,
     <<"r","e","s","p","o","n","s","i","b","i","l","i","t","y">> >>

\* sum(1 for keyword in keywords if keyword in text_lower)
keyword_count(keywords, text_lower) ==
  Cardinality({k \in 1..Len(keywords) : Contains(keywords[k], text_lower)})

classify_text_environmental(text) ==
  Min(100, keyword_count(env_keywords, lower(text)) * 10)

classify_text_social(text) ==
  Min(100, keyword_count(social_keywords, lower(text)) * 10)

classify_text_governance(text) ==
  Min(100, keyword_count(governance_keywords, lower(text)) * 10)

(***************************************************************************)
(* Texts.                                                                  *)
(***************************************************************************)
TextCarbonReport ==
  <<"C","a","r","b","o","n"," ","e","m","i","s","s","i","o","n",","," ","r","e","n","e","w","a","b","l","e",".">>
TextBoardReport ==
  <<"A","u","d","i","t","."," ","F","a","i","r"," ","w","a","g","e",".">>
TextBlank ==
  <<" ","\n">>
TextGreenNews ==
  <<"G","r","e","e","n"," ","w","a","s","t","e",".">>
TextSafetyReport ==
  <<"S","a","f","e","t","y","."," ","C","a","r","b","o","n",","," ","c","a","r","b","o","n",".">>

FragCarbon ==
  <<"c","a","r","b","o","n"," ">>
FragCarbonCap ==
  <<"C","a","r","b","o","n">>
FragEmission ==
  <<"E","M","I","S","S","I","O","N"," ">>
FragBoard ==
  <<"b","o","a","r","d"," ">>
FragHealth ==
  <<"h","e","a","l","t","h",".">>
FragEnergy ==
  <<"e","n","e","r","g","y">>
FragEfficiency ==
  <<" ","e","f","f","i","c","i","e","n","c","y">>
FragNineEnv ==
  <<"c","l","i","m","a","t","e"," ","r","e","n","e","w","a","b","l","e"," ","s","u","s","t","a","i","n","a","b","l","e"," ","g","r","e","e","n"," ","e","n","v","i","r","o","n","m","e","n","t"," ","p","o","l","l","u","t","i","o","n"," ","w","a","s","t","e"," ","r","e","c","y","c","l","e"," ","e","n","e","r","g","y"," ","e","f","f","i","c","i","e","n","c","y"," ">>

Fragments ==
  {FragCarbon, FragCarbonCap, FragEmission, FragBoard, FragHealth, FragEnergy, FragEfficiency, FragNineEnv}

\* every blob made of at most MaxFrags fragments
Blobs ==
  {Concat(fs) : fs \in UNION {[1..n -> Fragments] : n \in 0..MaxFrags}}

(***************************************************************************)
(* ESGScorer.analyze_sentiment (esg_scorer.py 89-109).                     *)
(***************************************************************************)
batch_size == 10

SentenceEnd == {".", "!", "?"}

\* nltk's sent_tokenize, as far as the texts here need it: a sentence ends
\* with its full stop, question or exclamation mark, or with the text; the
\* sentences come in order, stripped, and none is empty
sent_tokenize(text) ==
  LET n        == Len(text)
      cuts     == SelectSeq([i \in 1..n |-> i],
                            LAMBDA i : text[i] \in SentenceEnd \/ i = n)
      piece(k) == strip(SubSeq(text, IF k = 1 THEN 1 ELSE cuts[k - 1] + 1, cuts[k]))
  IN  SelectSeq([k \in 1..Len(cuts) |-> piece(k)], LAMBDA p : p # <<>>)

\* one call of the sentiment pipeline on a batch: one label per sentence;
\* `positive` is the set of sentences the pretrained model labels POSITIVE
sentiment_analyzer(batch, positive) ==
  [j \in 1..Len(batch) |-> IF batch[j] \in positive THEN "POSITIVE" ELSE "NEGATIVE"]

RECURSIVE SentimentScoresSkipping(_, _, _)
\* a faulty variant: the loop steps one sentence too far between batches
SentimentScoresSkipping(sentences, i, positive) ==
  IF i >= Len(sentences) THEN <<>>
  ELSE LET batch   == SubSeq(sentences, i + 1, Min(i + batch_size, Len(sentences)))
           results == sentiment_analyzer(batch, positive)
           scores  == [j \in 1..Len(results) |->
                         IF results[j] = "POSITIVE" THEN 1 ELSE 0]
       IN  scores \o SentimentScoresSkipping(sentences, i + batch_size + 1, positive)

RECURSIVE SentimentBatches(_, _)
\* the batches `sentences[i:i+batch_size]` the loop of lines 98-100 hands to
\* the pipeline from offset i on, in order
SentimentBatches(sentences, i) ==
  IF i >= Len(sentences) THEN <<>>
  ELSE <<SubSeq(sentences, i + 1, Min(i + batch_size, Len(sentences)))>>
       \o SentimentBatches(sentences, i + batch_size)

RECURSIVE SentimentScores(_, _, _)
\* the loop `for i in range(0, len(sentences), batch_size)` from offset i on
SentimentScores(sentences, i, positive) ==
  IF i >= Len(sentences) THEN <<>>
  ELSE LET batch   == SubSeq(sentences, i + 1, Min(i + batch_size, Len(sentences)))
           results == sentiment_analyzer(batch, positive)
           scores  == [j \in 1..Len(results) |->
                         IF results[j] = "POSITIVE" THEN 1 ELSE 0]
       IN  scores \o SentimentScores(sentences, i + batch_size, positive)

\* analyzer_raises: the pipeline throws on a batch (there must be one)
analyze_sentiment(text, positive, analyzer_raises) ==
  LET sentences        == sent_tokenize(text)
      sentiment_scores == SentimentScores(sentences, 0, positive)
  IN  IF analyzer_raises /\ sentences # <<>> THEN FromInt(50)
      ELSE IF sentiment_scores # <<>>
           THEN Rat(SumSeq(sentiment_scores) * 100, Len(sentiment_scores))
           ELSE FromInt(50)

(***************************************************************************)
(* The state: the store db (data/processed/esg_data.db), a record of       *)
(* tables; a table is missing or holds a sequence of rows.                 *)
(***************************************************************************)
VARIABLES
  db,             \* the tables of the store
  integrations,   \* integrate_company_data calls so far
  last,           \* the last call: what it was given and what it returned
  blob,           \* classifier specification: the text
  classified      \* classifier specification: its three scores

vars == <<db, integrations, last, blob, classified>>

NoTable == [exists |-> FALSE, rows |-> <<>>]

Table(rows) == [exists |-> TRUE, rows |-> rows]

EmptyStore ==
  [companies |-> NoTable,          \* rows [ticker, sector]
   stock_prices |-> NoTable,       \* rows [ticker]
   news |-> NoTable,               \* rows [ticker]
   news_content |-> NoTable,       \* rows [ticker, content]
   reports |-> NoTable,            \* rows [ticker, report_text]
   portfolio |-> NoTable,          \* rows [ticker, shares, purchase_price]
   esg_scores |-> NoTable,
   sector_benchmarks |-> NoTable,
   company_benchmark_comparisons |-> NoTable]

\* a faulty variant: every write replaces the table
to_sql_replacing(table, df, if_exists) == Table(df)

\* DataFrame.to_sql(name, con, if_exists=...): the table afterwards
to_sql(table, df, if_exists) ==
  IF if_exists = "append" /\ table.exists
  THEN Table(table.rows \o df)
  ELSE Table(df)

\* the rows of SELECT ... WHERE ticker = t
WhereTicker(table, t) == SelectSeq(table.rows, LAMBDA r : r.ticker = t)

Tickers == {"AAPL", "MSFT"}

\* a cell pandas read as NaN and SQLite stores as NULL
NaN == <<"NaN">>

(***************************************************************************)
(* DataIntegrator.integrate_company_data (data_integrator.py 17-81).       *)
(* The raw files of the ticker are its input: which of them exist and what *)
(* they hold.                                                              *)
(***************************************************************************)
\* sector is company_info.get('sector', ''); the stock file comes with the
\* profile and the news file with the news content sample
RawFiles(has_info, sector, has_news, contents, has_report, report_text) ==
  [has_info |-> has_info, sector |-> sector, has_stock |-> has_info,
   has_news |-> has_news, contents |-> contents,
   has_report |-> has_report, report_text |-> report_text]

\* what the collectors may have left on disk for a ticker
RawData(t) ==
  IF t = "AAPL"
  THEN { RawFiles(TRUE,  "Technology", FALSE, <<>>, TRUE, TextCarbonReport),
         RawFiles(FALSE, "",           FALSE, <<>>, TRUE, TextSafetyReport) }
  ELSE { RawFiles(TRUE,  "Aerospace",  TRUE, <<TextGreenNews>>, TRUE, TextBoardReport),
         RawFiles(TRUE,  "Energy",     TRUE, <<TextBlank>>, FALSE, <<>>),
         RawFiles(FALSE, "",           TRUE, <<NaN>>, FALSE, <<>>) }

\* fault "unreachable": the store refuses the first write, which raises
integrate_company_data(st, ticker_symbol, raw, fault) ==
  IF fault = "unreachable" /\ (raw.has_info \/ raw.has_stock \/ raw.has_news \/ raw.has_report)
  THEN [ret |-> FALSE, st |-> st]
  ELSE [ret |-> TRUE,
        st |->
          [st EXCEPT
             !.companies =
               IF raw.has_info
               THEN to_sql(@, <<[ticker |-> ticker_symbol, sector |-> raw.sector]>>,
                           "append")
               ELSE @,
             !.stock_prices =
               IF raw.has_stock
               THEN to_sql(@, <<[ticker |-> ticker_symbol]>>, "append")
               ELSE @,
             !.news =
               IF raw.has_news
               THEN to_sql(@, <<[ticker |-> ticker_symbol]>>, "append")
               ELSE @,
             !.news_content =
               IF raw.has_news
               THEN to_sql(@, [i \in 1..Len(raw.contents) |->
                                 [ticker |-> ticker_symbol,
                                  content |-> raw.contents[i]]],
                           "append")
               ELSE @,
             !.reports =
               IF raw.has_report
               THEN to_sql(@, <<[ticker |-> ticker_symbol,
                                 report_text |-> raw.report_text]>>,
                           "append")
               ELSE @]]

IntegrateCompanyData(ticker_symbol, raw, fault) ==
  LET out == integrate_company_data(db, ticker_symbol, raw, fault)
  IN  /\ integrations < MaxIntegrations
      /\ integrations' = integrations + 1
      /\ db' = out.st
      /\ last' = [op |-> "integrate_company_data", args |-> <<ticker_symbol, raw>>,
                  ret |-> <<out.ret>>, raised |-> FALSE,
                  error |-> IF out.ret THEN "none" ELSE "to_sql",
                  calls |-> <<>>]
      /\ UNCHANGED <<blob, classified>>

(***************************************************************************)
(* ESGScorer.score_company and score_portfolio (esg_scorer.py 111-175).    *)
(***************************************************************************)
\* what the store can do to a call: nothing, refuse the connection or the
\* query, or fail the write
Faults == {"none", "connect", "to_sql"}

\* the pretrained sentiment model, by the set of sentences it labels POSITIVE
SentimentModels ==
  { {},
    {sent_tokenize(TextBoardReport)[1], sent_tokenize(TextSafetyReport)[1]} }

\* the default record of lines 129-136
NeutralScores(ticker) ==
  [ticker |-> ticker,
   environmental_score |-> 50,
   social_score |-> 50,
   governance_score |-> 50,
   sentiment_score |-> FromInt(50),
   overall_esg_score |-> FromInt(50)]

\* a faulty variant: the plain average of the three scores
PlainAverage(env_score, social_score, gov_score) ==
  Rat(env_score + social_score + gov_score, 3)

\* env_score * 0.4 + social_score * 0.3 + gov_score * 0.3
WeightedOverall(env_score, social_score, gov_score) ==
  Rat(env_score * 4 + social_score * 3 + gov_score * 3, 10)

\* a faulty variant: the sentiment score takes a quarter of the overall score
ComputeScoresWithSentiment(ticker, combined_text, positive, analyzer_raises) ==
  LET env_score    == classify_text_environmental(combined_text)
      social_score == classify_text_social(combined_text)
      gov_score    == classify_text_governance(combined_text)
      sentiment    == analyze_sentiment(combined_text, positive, analyzer_raises)
  IN  [ticker |-> ticker,
       environmental_score |-> env_score,
       social_score |-> social_score,
       governance_score |-> gov_score,
       sentiment_score |-> sentiment,
       overall_esg_score |->
         Rat((env_score + social_score + gov_score) * sentiment.den + sentiment.num,
             4 * sentiment.den)]

\* lines 138-154
ComputeScores(ticker, combined_text, positive, analyzer_raises) ==
  LET env_score    == classify_text_environmental(combined_text)
      social_score == classify_text_social(combined_text)
      gov_score    == classify_text_governance(combined_text)
      sentiment    == analyze_sentiment(combined_text, positive, analyzer_raises)
  IN  [ticker |-> ticker,
       environmental_score |-> env_score,
       social_score |-> social_score,
       governance_score |-> gov_score,
       sentiment_score |-> sentiment,
       overall_esg_score |-> WeightedOverall(env_score, social_score, gov_score)]

\* 'replace' if ticker in scores_df['ticker'].values else 'append' (line 158)
ScoresIfExists(ticker, scores_df) ==
  IF ticker \in {scores_df[i].ticker : i \in 1..Len(scores_df)}
  THEN "replace" ELSE "append"

\* a faulty variant: the write of line 158 left outside the try block
score_company_guarded_reads ==
  {"connect", "read_reports", "read_news", "join"}

\* the steps of score_company inside its try block (lines 113-161)
score_company_guarded ==
  {"connect", "read_reports", "read_news", "join", "to_sql"}

\* One call on the store st.  fault: what the store does to the call;
\* dropped: whether a failed 'replace' write had already dropped the table.
\* ret is <<>> for None and <<record>> for a record.  conn: what the call
\* did with the connection of line 114: "none" when sqlite3.connect failed,
\* "closed" after conn.close() (line 160), "unclosed" when the call
\* returned without it.
score_company(st, ticker, fault, positive, analyzer_raises, dropped) ==
  LET report_df     == WhereTicker(st.reports, ticker)
      report_text   == IF report_df # <<>> THEN report_df[1].report_text ELSE <<>>
      news_df       == WhereTicker(st.news_content, ticker)
      contents      == [i \in 1..Len(news_df) |-> news_df[i].content]
      news_text     == IF news_df # <<>> THEN JoinWith(<<" ">>, contents) ELSE <<>>
      combined_text == report_text \o <<" ">> \o news_text
      no_text       == strip(combined_text) = <<>>
      error ==
        IF fault = "connect" THEN "connect"
        ELSE IF ~st.reports.exists THEN "read_reports"
        ELSE IF ~st.news_content.exists THEN "read_news"
        ELSE IF \E i \in 1..Len(contents) : contents[i] = NaN THEN "join"
        ELSE IF no_text THEN "none"
        ELSE IF fault = "to_sql" THEN "to_sql"
        ELSE "none"
      scores    == ComputeScores(ticker, combined_text, positive, analyzer_raises)
      scores_df == <<scores>>
  IN  IF error # "none"
      THEN [ret |-> <<>>,
            raised |-> error \notin score_company_guarded,
            error |-> error,
            conn |-> IF error = "connect" THEN "none" ELSE "unclosed",
            st |-> IF error = "to_sql" /\ dropped
                   THEN [st EXCEPT !.esg_scores = NoTable] ELSE st]
      ELSE IF no_text
      THEN [ret |-> <<NeutralScores(ticker)>>, raised |-> FALSE,
            error |-> "none", conn |-> "unclosed", st |-> st]
      ELSE [ret |-> <<scores>>, raised |-> FALSE, error |-> "none",
            conn |-> "closed",
            st |-> [st EXCEPT !.esg_scores =
                      to_sql(@, scores_df, ScoresIfExists(ticker, scores_df))]]

\* open: the connections of the call that are open when it has returned.
\* An unclosed connection is closed only when the interpreter finalises the
\* object, which may or may not have happened by then.
ScoreCompany(ticker, fault, positive, analyzer_raises, dropped) ==
  LET out == score_company(db, ticker, fault, positive, analyzer_raises, dropped)
  IN  /\ db' = out.st
      /\ \E open \in IF out.conn = "unclosed" THEN {0, 1} ELSE {0} :
           last' = [op |-> "score_company", args |-> <<ticker>>, ret |-> out.ret,
                    raised |-> out.raised, error |-> out.error, calls |-> <<>>,
                    open |-> open]
      /\ UNCHANGED <<integrations, blob, classified>>

RECURSIVE PortfolioLoop(_, _, _, _, _, _, _)
\* the loop of lines 169-173 from position i on; acc is what it has built
PortfolioLoop(tickers, i, acc, faults, positive, analyzer_raises, dropped) ==
  IF i > Len(tickers) THEN acc
  ELSE LET out  == score_company(acc.st, tickers[i], faults[i], positive,
                                 analyzer_raises, dropped)
           call == [ticker |-> tickers[i], ret |-> out.ret, raised |-> out.raised]
       IN  IF out.raised
           THEN [all_scores |-> acc.all_scores, calls |-> Append(acc.calls, call),
                 st |-> out.st, raised |-> TRUE]
           ELSE PortfolioLoop(tickers, i + 1,
                  [all_scores |-> IF out.ret # <<>>
                                  THEN acc.all_scores \o out.ret
                                  ELSE acc.all_scores,
                   calls |-> Append(acc.calls, call),
                   st |-> out.st,
                   raised |-> FALSE],
                  faults, positive, analyzer_raises, dropped)

RECURSIVE PortfolioLoopStopping(_, _, _, _, _, _, _)
PortfolioLoopStopping(tickers, i, acc, faults, positive, analyzer_raises, dropped) ==
  IF i > Len(tickers) THEN acc
  ELSE LET out  == score_company(acc.st, tickers[i], faults[i], positive,
                                 analyzer_raises, dropped)
           call == [ticker |-> tickers[i], ret |-> out.ret, raised |-> out.raised]
           next == [all_scores |-> acc.all_scores \o out.ret,
                    calls |-> Append(acc.calls, call),
                    st |-> out.st, raised |-> out.raised]
       IN  IF out.raised \/ out.ret = <<>> THEN next
           ELSE PortfolioLoopStopping(tickers, i + 1, next, faults, positive,
                                      analyzer_raises, dropped)

\* a faulty variant: the loop ends at the first ticker whose scoring returns None
score_portfolio_stopping(st, tickers, faults, positive, analyzer_raises, dropped) ==
  PortfolioLoopStopping(tickers, 1,
                [all_scores |-> <<>>, calls |-> <<>>, st |-> st, raised |-> FALSE],
                faults, positive, analyzer_raises, dropped)

\* faults[i]: what the store does to the i-th call of score_company
score_portfolio(st, tickers, faults, positive, analyzer_raises, dropped) ==
  PortfolioLoop(tickers, 1,
                [all_scores |-> <<>>, calls |-> <<>>, st |-> st, raised |-> FALSE],
                faults, positive, analyzer_raises, dropped)

ScorePortfolio(tickers, faults, positive, analyzer_raises, dropped) ==
  LET out == score_portfolio(db, tickers, faults, positive, analyzer_raises, dropped)
  IN  /\ db' = out.st
      /\ last' = [op |-> "score_portfolio", args |-> <<tickers>>,
                  ret |-> out.all_scores, raised |-> out.raised,
                  error |-> "none", calls |-> out.calls]
      /\ UNCHANGED <<integrations, blob, classified>>

(***************************************************************************)
(* ESGBenchmarkGenerator.load_sector_benchmarks                            *)
(* (benchmark_generator.py 9-59).                                          *)
(***************************************************************************)
sectors ==
  << "Technology", "Healthcare", "Financial Services", "Consumer Cyclical",
     "Industrials", "Communication Services", "Energy", "Basic Materials",
     "Consumer Defensive", "Utilities", "Real Estate" >>

\* the means of the three normal distributions of a sector (lines 25-36)
SectorMeans(sector) ==
  IF sector \in {"Technology", "Healthcare"}
  THEN [env |-> 75, social |-> 80, gov |-> 75]
  ELSE IF sector \in {"Energy", "Basic Materials"}
  THEN [env |-> 50, social |-> 60, gov |-> 65]
  ELSE [env |-> 65, social |-> 70, gov |-> 70]

\* How far the draws of one generation fall from the means: not at all, or
\* far enough to leave [0,100] on either side.
Deviations ==
  { [env |-> 0, social |-> 0, gov |-> 0, step |-> 0],
    [env |-> 30, social |-> -90, gov |-> -4, step |-> 3] }

\* np.random.normal for every sector of one generation
DrawVector(dev) ==
  [i \in 1..Len(sectors) |->
     [env    |-> SectorMeans(sectors[i]).env + dev.env,
      social |-> SectorMeans(sectors[i]).social + dev.social,
      gov    |-> SectorMeans(sectors[i]).gov + dev.gov + dev.step * i]]

Draws == {DrawVector(dev) : dev \in Deviations}

\* a faulty variant: the lower limit forgotten
ClampAbove(score) == Min(100, score)

\* max(0, min(100, score)) (lines 39-41)
Clamp(score) == Max(0, Min(100, score))

\* a faulty variant: the overall benchmark weighted from the draws as drawn
BenchmarkRowFromDraws(sector, drawn) ==
  [sector |-> sector,
   environmental_benchmark |-> FromInt(Clamp(drawn.env)),
   social_benchmark |-> FromInt(Clamp(drawn.social)),
   governance_benchmark |-> FromInt(Clamp(drawn.gov)),
   overall_benchmark |-> WeightedOverall(drawn.env, drawn.social, drawn.gov)]

\* one element of `benchmarks` (lines 38-51)
BenchmarkRow(sector, drawn) ==
  LET env_score    == Clamp(drawn.env)
      social_score == Clamp(drawn.social)
      gov_score    == Clamp(drawn.gov)
  IN  [sector |-> sector,
       environmental_benchmark |-> FromInt(env_score),
       social_benchmark |-> FromInt(social_score),
       governance_benchmark |-> FromInt(gov_score),
       overall_benchmark |-> WeightedOverall(env_score, social_score, gov_score)]

\* load_sector_benchmarks has no try block: nothing is caught
load_sector_benchmarks_guarded == {}

\* a faulty variant: the new generation appended to the old one
load_sector_benchmarks_appending(st, draw, fault, dropped) ==
  LET benchmarks_df == [i \in 1..Len(sectors) |-> BenchmarkRow(sectors[i], draw[i])]
  IN  IF fault \in {"connect", "to_sql"}
      THEN [ret |-> <<>>, raised |-> TRUE, error |-> fault, st |-> st]
      ELSE [ret |-> benchmarks_df, raised |-> FALSE, error |-> "none",
            st |-> [st EXCEPT !.sector_benchmarks = to_sql(@, benchmarks_df, "append")]]

\* One call on the store st with the draws `draw`.
load_sector_benchmarks(st, draw, fault, dropped) ==
  LET benchmarks_df == [i \in 1..Len(sectors) |-> BenchmarkRow(sectors[i], draw[i])]
  IN  IF fault \in {"connect", "to_sql"}
      THEN [ret |-> <<>>, raised |-> fault \notin load_sector_benchmarks_guarded,
            error |-> fault,
            st |-> IF fault = "to_sql" /\ dropped
                   THEN [st EXCEPT !.sector_benchmarks = NoTable] ELSE st]
      ELSE [ret |-> benchmarks_df, raised |-> FALSE, error |-> "none",
            st |-> [st EXCEPT !.sector_benchmarks = to_sql(@, benchmarks_df, "replace")]]

LoadSectorBenchmarks(draw, fault, dropped) ==
  LET out == load_sector_benchmarks(db, draw, fault, dropped)
  IN  /\ db' = out.st
      /\ last' = [op |-> "load_sector_benchmarks", args |-> <<>>, ret |-> out.ret,
                  raised |-> out.raised, error |-> out.error, calls |-> <<>>]
      /\ UNCHANGED <<integrations, blob, classified>>

(***************************************************************************)
(* ESGBenchmarkGenerator.generate_company_comparisons                      *)
(* (benchmark_generator.py 61-136).  Lines 85-89 of the file are a cut-off *)
(* copy of the head of the loop of lines 91-126, which is the one modelled.*)
(***************************************************************************)
\* esg_scores.merge(companies, on='ticker'): the inner join, left order kept
Merge(scores, comps) ==
  Concat([i \in 1..Len(scores) |->
            LET matches == SelectSeq(comps, LAMBDA c : c.ticker = scores[i].ticker)
            IN  [j \in 1..Len(matches) |->
                   [ticker |-> scores[i].ticker,
                    environmental_score |-> scores[i].environmental_score,
                    social_score |-> scores[i].social_score,
                    governance_score |-> scores[i].governance_score,
                    sentiment_score |-> scores[i].sentiment_score,
                    overall_esg_score |-> scores[i].overall_esg_score,
                    sector |-> matches[j].sector]]])

\* the mean of rationals of one denominator
RMean(rs) ==
  Rat(SumSeq([i \in 1..Len(rs) |-> rs[i].num]), rs[1].den * Len(rs))

\* benchmarks.mean(), the numeric columns (line 98)
ColumnMeans(benchmarks) ==
  [environmental_benchmark |->
     RMean([i \in 1..Len(benchmarks) |-> benchmarks[i].environmental_benchmark]),
   social_benchmark |->
     RMean([i \in 1..Len(benchmarks) |-> benchmarks[i].social_benchmark]),
   governance_benchmark |->
     RMean([i \in 1..Len(benchmarks) |-> benchmarks[i].governance_benchmark]),
   overall_benchmark |->
     RMean([i \in 1..Len(benchmarks) |-> benchmarks[i].overall_benchmark])]

\* benchmarks[benchmarks['sector'] == sector]
SectorRows(benchmarks, sector) ==
  SelectSeq(benchmarks, LAMBDA b : b.sector = sector)

\* the benchmark a company is compared with (lines 94-107)
BenchmarkFor(benchmarks, sector) ==
  IF SectorRows(benchmarks, sector) = <<>>
  THEN ColumnMeans(benchmarks)
  ELSE LET row == SectorRows(benchmarks, sector)[1]
       IN  [environmental_benchmark |-> row.environmental_benchmark,
            social_benchmark |-> row.social_benchmark,
            governance_benchmark |-> row.governance_benchmark,
            overall_benchmark |-> row.overall_benchmark]

\* a faulty variant: the overall difference taken the other way round
ComparisonReversed(company, bench) ==
  [ticker |-> company.ticker,
   sector |-> company.sector,
   company_env_score |-> FromInt(company.environmental_score),
   sector_env_benchmark |-> bench.environmental_benchmark,
   env_difference |->
     RSub(FromInt(company.environmental_score), bench.environmental_benchmark),
   company_social_score |-> FromInt(company.social_score),
   sector_social_benchmark |-> bench.social_benchmark,
   social_difference |->
     RSub(FromInt(company.social_score), bench.social_benchmark),
   company_gov_score |-> FromInt(company.governance_score),
   sector_gov_benchmark |-> bench.governance_benchmark,
   gov_difference |->
     RSub(FromInt(company.governance_score), bench.governance_benchmark),
   company_overall_score |-> company.overall_esg_score,
   sector_overall_benchmark |-> bench.overall_benchmark,
   overall_difference |->
     RSub(bench.overall_benchmark, company.overall_esg_score)]

\* the `comparison` of one merged row (lines 109-124)
Comparison(company, bench) ==
  [ticker |-> company.ticker,
   sector |-> company.sector,
   company_env_score |-> FromInt(company.environmental_score),
   sector_env_benchmark |-> bench.environmental_benchmark,
   env_difference |->
     RSub(FromInt(company.environmental_score), bench.environmental_benchmark),
   company_social_score |-> FromInt(company.social_score),
   sector_social_benchmark |-> bench.social_benchmark,
   social_difference |->
     RSub(FromInt(company.social_score), bench.social_benchmark),
   company_gov_score |-> FromInt(company.governance_score),
   sector_gov_benchmark |-> bench.governance_benchmark,
   gov_difference |->
     RSub(FromInt(company.governance_score), bench.governance_benchmark),
   company_overall_score |-> company.overall_esg_score,
   sector_overall_benchmark |-> bench.overall_benchmark,
   overall_difference |->
     RSub(company.overall_esg_score, bench.overall_benchmark)]

\* the steps of generate_company_comparisons inside its try block (63-133)
generate_company_comparisons_guarded ==
  {"connect", "read_esg_scores", "read_companies", "load_sector_benchmarks",
   "mean", "to_sql"}

\* the steps before the write of line 130: the join and the computation
JoinAndComputation ==
  {"connect", "read_esg_scores", "read_companies", "load_sector_benchmarks", "mean"}

\* a faulty variant: the write moved to a `finally`, so that a failed run replaces
\* the table by the rows it had built, none
WriteComparisonsFinally(st, comparisons, error, lost) ==
  IF error = "none"
  THEN [st EXCEPT !.company_benchmark_comparisons = to_sql(@, comparisons, "replace")]
  ELSE [st EXCEPT !.company_benchmark_comparisons = Table(<<>>)]

\* a faulty variant: the rows of the run appended to those of earlier runs
WriteComparisonsAppending(st, comparisons, error, lost) ==
  IF error = "none"
  THEN [st EXCEPT !.company_benchmark_comparisons = to_sql(@, comparisons, "append")]
  ELSE st

\* comparisons_df.to_sql(..., if_exists='replace') (lines 129-130): the store
\* after the run; lost: a failed write had already dropped the old table
WriteComparisons(st, comparisons, error, lost) ==
  IF error = "none"
  THEN [st EXCEPT !.company_benchmark_comparisons = to_sql(@, comparisons, "replace")]
  ELSE IF error = "to_sql" /\ lost
  THEN [st EXCEPT !.company_benchmark_comparisons = NoTable]
  ELSE st

\* a faulty variant: the benchmarks are regenerated whether or not the table
\* can be read
generate_company_comparisons_regenerating(st, fault, draw, mean_raises, empty_raises, dropped) ==
  LET regenerate == TRUE
      loaded     == load_sector_benchmarks(st, draw,
                      IF fault = "load_sector_benchmarks" THEN "to_sql" ELSE "none",
                      dropped)
      benchmarks == IF regenerate THEN loaded.ret ELSE st.sector_benchmarks.rows
      st1        == IF regenerate THEN loaded.st ELSE st
      merged     == Merge(st.esg_scores.rows, st.companies.rows)
      needs_mean == \E i \in 1..Len(merged) :
                      SectorRows(benchmarks, merged[i].sector) = <<>>
      comparisons ==
        [i \in 1..Len(merged) |->
           Comparison(merged[i], BenchmarkFor(benchmarks, merged[i].sector))]
      error ==
        IF fault = "connect" THEN "connect"
        ELSE IF ~st.esg_scores.exists THEN "read_esg_scores"
        ELSE IF ~st.companies.exists THEN "read_companies"
        ELSE IF regenerate /\ loaded.error # "none" THEN "load_sector_benchmarks"
        ELSE IF needs_mean /\ mean_raises THEN "mean"
        ELSE IF fault = "to_sql" \/ (merged = <<>> /\ empty_raises) THEN "to_sql"
        ELSE "none"
      st2 == IF error \in {"connect", "read_esg_scores", "read_companies"}
             THEN st ELSE st1
  IN  [ret |-> IF error = "none" THEN comparisons ELSE <<>>,
       raised |-> error # "none" /\ error \notin generate_company_comparisons_guarded,
       error |-> error,
       st |-> WriteComparisons(st2, comparisons, error,
                               dropped \/ (merged = <<>> /\ fault # "to_sql"))]

\* One call on the store st.  fault: what the store does to the call;
\* draw: the draws of a regeneration; mean_raises: the installed pandas
\* refuses the mean of the text column `sector` (numeric_only defaults to
\* False from pandas 2.0 on) instead of leaving the column out;
\* empty_raises: the write of a frame without columns fails after the old
\* table was dropped; dropped: as for the scorer.
generate_company_comparisons(st, fault, draw, mean_raises, empty_raises, dropped) ==
  LET regenerate == ~st.sector_benchmarks.exists
      loaded     == load_sector_benchmarks(st, draw,
                      IF fault = "load_sector_benchmarks" THEN "to_sql" ELSE "none",
                      dropped)
      benchmarks == IF regenerate THEN loaded.ret ELSE st.sector_benchmarks.rows
      st1        == IF regenerate THEN loaded.st ELSE st
      merged     == Merge(st.esg_scores.rows, st.companies.rows)
      needs_mean == \E i \in 1..Len(merged) :
                      SectorRows(benchmarks, merged[i].sector) = <<>>
      comparisons ==
        [i \in 1..Len(merged) |->
           Comparison(merged[i], BenchmarkFor(benchmarks, merged[i].sector))]
      error ==
        IF fault = "connect" THEN "connect"
        ELSE IF ~st.esg_scores.exists THEN "read_esg_scores"
        ELSE IF ~st.companies.exists THEN "read_companies"
        ELSE IF regenerate /\ loaded.error # "none" THEN "load_sector_benchmarks"
        ELSE IF needs_mean /\ mean_raises THEN "mean"
        ELSE IF fault = "to_sql" \/ (merged = <<>> /\ empty_raises) THEN "to_sql"
        ELSE "none"
      st2 == IF error \in {"connect", "read_esg_scores", "read_companies"}
             THEN st ELSE st1
  IN  [ret |-> IF error = "none" THEN comparisons ELSE <<>>,
       raised |-> error # "none" /\ error \notin generate_company_comparisons_guarded,
       error |-> error,
       st |-> WriteComparisons(st2, comparisons, error,
                               dropped \/ (merged = <<>> /\ fault # "to_sql"))]

GenerateCompanyComparisons(fault, draw, mean_raises, empty_raises, dropped) ==
  LET out == generate_company_comparisons(db, fault, draw, mean_raises,
                                          empty_raises, dropped)
  IN  /\ db' = out.st
      /\ last' = [op |-> "generate_company_comparisons", args |-> <<>>,
                  ret |-> out.ret, raised |-> out.raised, error |-> out.error,
                  calls |-> <<>>]
      /\ UNCHANGED <<integrations, blob, classified>>

(***************************************************************************)
(* PortfolioSpec: the Create/Edit Portfolio page (streamlit_app.py         *)
(* 155-266) on the stores that ingestion leaves behind.                    *)
(***************************************************************************)
\* the numbers of shares and the purchase prices of the form, in cents
Shares == {100, 250}

Prices == {1, 1999}

\* a faulty variant: the submitted position always added as a new row
MergePositionAppending(portfolio_df, ticker, shares, price) ==
  Append(portfolio_df, [ticker |-> ticker, shares |-> shares, purchase_price |-> price])

\* update the rows of the ticker or add a row for it (lines 193-201)
MergePosition(portfolio_df, ticker, shares, price) ==
  IF ticker \in {portfolio_df[i].ticker : i \in 1..Len(portfolio_df)}
  THEN [i \in 1..Len(portfolio_df) |->
          IF portfolio_df[i].ticker = ticker
          THEN [portfolio_df[i] EXCEPT !.shares = shares, !.purchase_price = price]
          ELSE portfolio_df[i]]
  ELSE portfolio_df \o
         <<[ticker |-> ticker, shares |-> shares, purchase_price |-> price]>>

\* One submission of the Add Position form on the store st (lines 168-208);
\* a failure of the write is caught by the page (lines 263-266).
add_position(st, ticker, shares, price, fault, dropped) ==
  LET portfolio_df == IF st.portfolio.exists THEN st.portfolio.rows ELSE <<>>
      merged       == MergePosition(portfolio_df, ticker, shares, price)
  IN  IF fault = "to_sql"
      THEN [error |-> "to_sql",
            st |-> IF dropped THEN [st EXCEPT !.portfolio = NoTable] ELSE st]
      ELSE [error |-> "none",
            st |-> [st EXCEPT !.portfolio = to_sql(@, merged, "replace")]]

\* the form offers the tickers of the companies table, which must have rows
\* (lines 161-166, 186)
AddPosition(ticker, shares, price, fault, dropped) ==
  LET out == add_position(db, ticker, shares, price, fault, dropped)
  IN  /\ db.companies.exists
      /\ \E i \in 1..Len(db.companies.rows) : db.companies.rows[i].ticker = ticker
      /\ db' = out.st
      /\ last' = [op |-> "add_position", args |-> <<ticker, shares, price>>,
                  ret |-> <<>>, raised |-> FALSE, error |-> out.error,
                  calls |-> <<>>]
      /\ UNCHANGED <<integrations, blob, classified>>

\* the Reset Portfolio button, shown with a portfolio that has rows
\* (lines 211, 252-258): DROP TABLE IF EXISTS portfolio
ResetPortfolio ==
  /\ db.companies.exists
  /\ db.companies.rows # <<>>
  /\ db.portfolio.exists
  /\ db.portfolio.rows # <<>>
  /\ db' = [db EXCEPT !.portfolio = NoTable]
  /\ last' = [op |-> "reset_portfolio", args |-> <<>>, ret |-> <<>>,
              raised |-> FALSE, error |-> "none", calls |-> <<>>]
  /\ UNCHANGED <<integrations, blob, classified>>

(***************************************************************************)
(* Spec: ingestion and scoring, from the empty store.                      *)
(***************************************************************************)
NotClassified == [environmental |-> -1, social |-> -1, governance |-> -1]

NoCall == [op |-> "none", args |-> <<>>, ret |-> <<>>, raised |-> FALSE,
           error |-> "none", calls |-> <<>>]

Init ==
  /\ db = EmptyStore
  /\ integrations = 0
  /\ last = NoCall
  /\ blob = <<>>
  /\ classified = NotClassified

\* the ticker lists score_portfolio is called with: the ticker column of a
\* portfolio, no ticker twice
Portfolios ==
  {p \in UNION {[1..n -> Tickers] : n \in 1..Cardinality(Tickers)} :
     \A i, j \in 1..Len(p) : i # j => p[i] # p[j]}

\* what happens around one call: the store's fault, the sentiment model,
\* whether the sentiment pipeline throws, whether a failed write had
\* already dropped the old table
Env(fault, positive, analyzer_raises, dropped) ==
  [fault |-> fault, positive |-> positive, analyzer_raises |-> analyzer_raises,
   dropped |-> dropped]

ScoreEnvs ==
  {Env("none", positive, FALSE, FALSE) : positive \in SentimentModels} \cup
  { Env("none", {}, TRUE, FALSE),
    Env("connect", {}, FALSE, FALSE),
    Env("to_sql", {}, FALSE, FALSE),
    Env("to_sql", {}, FALSE, TRUE) }

Integrate ==
  \E t \in Tickers, fault \in {"none", "unreachable"} :
    \E raw \in RawData(t) :
      IntegrateCompanyData(t, raw, fault)

Score ==
  \E t \in Tickers, e \in ScoreEnvs :
    ScoreCompany(t, e.fault, e.positive, e.analyzer_raises, e.dropped)

ScoreAll ==
  \E tickers \in Portfolios :
    \E faults \in [1..Len(tickers) -> {"none", "connect"}] :
      ScorePortfolio(tickers, faults, {}, FALSE, FALSE)

Next ==
  \/ Integrate
  \/ Score
  \/ ScoreAll

Spec == Init /\ [][Next]_vars

(***************************************************************************)
(* BenchmarkSpec: the benchmark generator on the stores that ingestion and *)
(* scoring leave behind.                                                   *)
(***************************************************************************)
\* the inputs of one integration
Ingestions ==
  UNION {{[ticker |-> t, raw |-> raw] : raw \in RawData(t)} : t \in Tickers}

IngestionRuns == UNION {[1..n -> Ingestions] : n \in 0..MaxIntegrations}

RECURSIVE StoreAfter(_, _)
\* the store after the first k integrations of the run
StoreAfter(run, k) ==
  IF k = 0 THEN EmptyStore
  ELSE integrate_company_data(StoreAfter(run, k - 1), run[k].ticker, run[k].raw,
                              "none").st

\* the stores after an ingestion run, unscored or with one more scoring
ScoredStores ==
  UNION {{StoreAfter(run, Len(run))} \cup
         {score_company(StoreAfter(run, Len(run)), t, "none", {}, FALSE, FALSE).st :
            t \in Tickers} : run \in IngestionRuns}

BenchmarkInit ==
  /\ db \in ScoredStores
  /\ integrations = 0
  /\ last = NoCall
  /\ blob = <<>>
  /\ classified = NotClassified

LoadBenchmarks ==
  \E draw \in Draws, fault \in Faults, dropped \in BOOLEAN :
    /\ dropped => fault = "to_sql"
    /\ LoadSectorBenchmarks(draw, fault, dropped)

\* the installed pandas: before 2.0 (the mean leaves the text column out)
\* or from 2.0 on (the mean raises); the write of a frame without columns
\* fails or leaves an empty table
GenerateEnvs ==
  {[fault |-> "none", draw |-> draw, mean_raises |-> pandas2,
    empty_raises |-> empty_raises, dropped |-> FALSE] :
      draw \in Draws, pandas2 \in BOOLEAN, empty_raises \in BOOLEAN} \cup
  {[fault |-> fault, draw |-> draw, mean_raises |-> FALSE,
    empty_raises |-> FALSE, dropped |-> dropped] :
      fault \in {"connect", "load_sector_benchmarks", "to_sql"},
      draw \in Draws, dropped \in BOOLEAN}

GenerateComparisons ==
  \E e \in GenerateEnvs :
    GenerateCompanyComparisons(e.fault, e.draw, e.mean_raises, e.empty_raises,
                               e.dropped)

BenchmarkNext ==
  \/ LoadBenchmarks
  \/ GenerateComparisons

BenchmarkSpec == BenchmarkInit /\ [][BenchmarkNext]_vars

(***************************************************************************)
(* ClassifySpec: the classifiers on a blob.                                *)
(***************************************************************************)
ClassifyInit ==
  /\ db = EmptyStore
  /\ integrations = 0
  /\ last = NoCall
  /\ blob \in Blobs
  /\ classified = NotClassified

ClassifyEnvironmental ==
  /\ classified.environmental = -1
  /\ classified' = [classified EXCEPT !.environmental = classify_text_environmental(blob)]
  /\ UNCHANGED <<db, integrations, last, blob>>

ClassifySocial ==
  /\ classified.social = -1
  /\ classified' = [classified EXCEPT !.social = classify_text_social(blob)]
  /\ UNCHANGED <<db, integrations, last, blob>>

ClassifyGovernance ==
  /\ classified.governance = -1
  /\ classified' = [classified EXCEPT !.governance = classify_text_governance(blob)]
  /\ UNCHANGED <<db, integrations, last, blob>>

ClassifyNext ==
  \/ ClassifyEnvironmental
  \/ ClassifySocial
  \/ ClassifyGovernance

ClassifySpec == ClassifyInit /\ [][ClassifyNext]_vars


(***************************************************************************)
(* PortfolioSpec: editing the portfolio after an ingestion run.            *)
(***************************************************************************)
\* the stores in which the page finds companies
PortfolioStores ==
  {st \in {StoreAfter(run, Len(run)) : run \in IngestionRuns} :
     st.companies.exists /\ st.companies.rows # <<>>}

PortfolioInit ==
  /\ db \in PortfolioStores
  /\ integrations = 0
  /\ last = NoCall
  /\ blob = <<>>
  /\ classified = NotClassified

SubmitAddPosition ==
  \E t \in Tickers, shares \in Shares, price \in Prices :
    \E fault \in {"none", "to_sql"}, dropped \in BOOLEAN :
      /\ dropped => fault = "to_sql"
      /\ AddPosition(t, shares, price, fault, dropped)

PortfolioNext ==
  \/ SubmitAddPosition
  \/ ResetPortfolio

PortfolioSpec == PortfolioInit /\ [][PortfolioNext]_vars

(***************************************************************************)
(* RunSpec: the Run ESG Analysis button (streamlit_app.py 272-299) on a    *)
(* store with companies, the portfolio being edited between the runs.      *)
(***************************************************************************)
\* How one press of the button ends, given what its three calls did.
\* crash: where the run ends early, the process being stopped between two
\* writes or load_sector_benchmarks raising.
run_analysis(tickers, scored, loaded, generated, crash) ==
  IF crash = "after_scoring"
  THEN [tickers |-> tickers, ret |-> <<>>, raised |-> TRUE, error |-> crash,
        st |-> scored.st]
  ELSE IF loaded.raised
  THEN [tickers |-> tickers, ret |-> <<>>, raised |-> TRUE, error |-> crash,
        st |-> loaded.st]
  ELSE IF crash = "after_benchmarks"
  THEN [tickers |-> tickers, ret |-> <<>>, raised |-> TRUE, error |-> crash,
        st |-> loaded.st]
  ELSE [tickers |-> tickers, ret |-> generated.ret, raised |-> FALSE,
        error |-> generated.error, st |-> generated.st]

\* a faulty variant: the comparisons generated before the benchmarks are
\* regenerated
RunAnalysisGenerateFirst(crash, draw, mean_raises, empty_raises) ==
  /\ db.portfolio.exists
  /\ db.portfolio.rows # <<>>
  /\ \E tickers \in {[i \in 1..Len(db.portfolio.rows) |-> db.portfolio.rows[i].ticker]} :
     \E scored \in {score_portfolio(db, tickers, [i \in 1..Len(tickers) |-> "none"],
                                    {}, FALSE, FALSE)} :
     \E generated \in {generate_company_comparisons(scored.st, "none", draw,
                                                    mean_raises, empty_raises, FALSE)} :
     \E loaded \in {load_sector_benchmarks(generated.st, draw,
                       IF crash = "load_sector_benchmarks" THEN "to_sql" ELSE "none",
                       FALSE)} :
       /\ db' = IF crash = "after_scoring" THEN scored.st ELSE loaded.st
       /\ last' = [op |-> "run_analysis", args |-> <<tickers>>,
                   ret |-> IF crash = "none" THEN generated.ret ELSE <<>>,
                   raised |-> crash # "none",
                   error |-> IF crash = "none" THEN generated.error ELSE crash,
                   calls |-> <<>>]
  /\ UNCHANGED <<integrations, blob, classified>>

\* One press of the button, shown for a portfolio that has rows (lines
\* 272-284): score_portfolio on the tickers of the portfolio, then
\* load_sector_benchmarks, then generate_company_comparisons (lines 287-299),
\* each on the store the call before it left.
RunAnalysis(crash, draw, mean_raises, empty_raises) ==
  /\ db.portfolio.exists
  /\ db.portfolio.rows # <<>>
  /\ \E tickers \in {[i \in 1..Len(db.portfolio.rows) |-> db.portfolio.rows[i].ticker]} :
     \E scored \in {score_portfolio(db, tickers, [i \in 1..Len(tickers) |-> "none"],
                                    {}, FALSE, FALSE)} :
     \E loaded \in {load_sector_benchmarks(scored.st, draw,
                       IF crash = "load_sector_benchmarks" THEN "to_sql" ELSE "none",
                       FALSE)} :
     \E generated \in {generate_company_comparisons(loaded.st, "none", draw,
                                                    mean_raises, empty_raises, FALSE)} :
       LET out == run_analysis(tickers, scored, loaded, generated, crash)
       IN  /\ db' = out.st
           /\ last' = [op |-> "run_analysis", args |-> <<out.tickers>>,
                       ret |-> out.ret, raised |-> out.raised, error |-> out.error,
                       calls |-> <<>>]
  /\ UNCHANGED <<integrations, blob, classified>>

\* the stores after both tickers were added to the database, one after the
\* other, in which the portfolio page finds companies
RunStores ==
  {st \in {StoreAfter(<<[ticker |-> "AAPL", raw |-> ra],
                        [ticker |-> "MSFT", raw |-> rm]>>, 2) :
             ra \in RawData("AAPL"), rm \in RawData("MSFT")} :
     st.companies.exists /\ st.companies.rows # <<>>}

RunInit ==
  /\ db \in RunStores
  /\ integrations = 0
  /\ last = NoCall
  /\ blob = <<>>
  /\ classified = NotClassified

\* how a run may go: to its end, with either pandas, or stopped early
RunEnvs ==
  {[crash |-> "none", draw |-> draw, mean_raises |-> pandas2,
    empty_raises |-> empty_raises] :
      draw \in Draws, pandas2 \in BOOLEAN, empty_raises \in BOOLEAN} \cup
  {[crash |-> crash, draw |-> draw, mean_raises |-> FALSE, empty_raises |-> FALSE] :
      crash \in {"after_scoring", "load_sector_benchmarks", "after_benchmarks"},
      draw \in Draws}

PressRunAnalysis ==
  \E e \in RunEnvs :
    RunAnalysis(e.crash, e.draw, e.mean_raises, e.empty_raises)

\* the positions are added with one number of shares and one price
EditPortfolio ==
  \E t \in Tickers : AddPosition(t, 100, 1999, "none", FALSE)

RunNext ==
  \/ EditPortfolio
  \/ PressRunAnalysis

RunSpec == RunInit /\ [][RunNext]_vars

(***************************************************************************)
(* SentimentSpec: analyze_sentiment on a blob of short sentences.          *)
(***************************************************************************)
SentenceUp == <<"U", "p", ".">>

SentenceNo == <<"N", "o", ".">>

\* blobs of up to MaxSentences sentences, and a blob of whitespace
SentimentTexts ==
  {JoinWith(<<" ">>, sentences) :
     sentences \in UNION {[1..n -> {SentenceUp, SentenceNo}] : n \in 0..MaxSentences}}
  \cup {TextBlank}

\* the pretrained model on these sentences, by what it labels POSITIVE
SentenceJudgments == {{SentenceUp}, {}}

SentimentInit ==
  /\ db = EmptyStore
  /\ integrations = 0
  /\ last = NoCall
  /\ blob \in SentimentTexts
  /\ classified = NotClassified

\* one call of analyze_sentiment(blob); the pipeline throws on one of the
\* batches when it throws.  calls: the batches the pipeline judged.
AnalyzeSentiment(positive, analyzer_raises) ==
  \E batches \in {SentimentBatches(sent_tokenize(blob), 0)} :
    \E failing \in IF analyzer_raises THEN 1..Len(batches) ELSE {0} :
      /\ last.op = "none"
      /\ last' = [op |-> "analyze_sentiment",
                  args |-> <<blob, positive>>,
                  ret |-> <<analyze_sentiment(blob, positive, analyzer_raises)>>,
                  raised |-> FALSE,
                  error |-> IF analyzer_raises THEN "sentiment_analyzer" ELSE "none",
                  calls |-> IF analyzer_raises
                            THEN SubSeq(batches, 1, failing - 1) ELSE batches]
      /\ UNCHANGED <<db, integrations, blob, classified>>

SentimentNext ==
  \E positive \in SentenceJudgments, analyzer_raises \in BOOLEAN :
    AnalyzeSentiment(positive, analyzer_raises)

SentimentSpec == SentimentInit /\ [][SentimentNext]_vars

(***************************************************************************)
(* ReingestSpec: re-ingestion and scoring on a store in which both tickers *)
(* were ingested before (streamlit_app.py 134-137 run again).              *)
(***************************************************************************)
\* the store after a first ingestion run; the bound leaves one integration
\* less than in Spec
ReingestInit ==
  /\ db \in RunStores
  /\ integrations = 1
  /\ last = NoCall
  /\ blob = <<>>
  /\ classified = NotClassified

ReingestNext ==
  \/ Integrate
  \/ Score

ReingestSpec == ReingestInit /\ [][ReingestNext]_vars

(***************************************************************************)
(* The properties.                                                         *)
(***************************************************************************)
IsScoring == last.op \in {"score_company", "score_portfolio"}

IsGenerate == last.op = "generate_company_comparisons"

\* the texts the store holds for a ticker: report texts and news contents
TextsOf(st, ticker) ==
  {st.reports.rows[i].report_text :
     i \in {j \in 1..Len(st.reports.rows) : st.reports.rows[j].ticker = ticker}}
  \cup
  {st.news_content.rows[i].content :
     i \in {j \in 1..Len(st.news_content.rows) :
              st.news_content.rows[j].ticker = ticker}}

\* the ticker has no row of text, or only rows of whitespace
NoText(st, ticker) ==
  \A text \in TextsOf(st, ticker) : text # NaN /\ strip(text) = <<>>

\* the ticker has a row of text that is more than whitespace
HasText(st, ticker) ==
  \E text \in TextsOf(st, ticker) : text # NaN /\ strip(text) # <<>>

RowsOf(rows, ticker) == SelectSeq(rows, LAMBDA r : r.ticker = ticker)

\* overall == 0.4 * environmental + 0.3 * social + 0.3 * governance
IsWeighted(r) ==
  10 * r.overall_esg_score.num =
    r.overall_esg_score.den *
      (4 * r.environmental_score + 3 * r.social_score + 3 * r.governance_score)

\* C1: after score_portfolio over distinct tickers that have text, the
\* esg_scores table holds exactly one row for every ticker the call scored,
\* the row the call returned for it: scoring one ticker removes no other's.
C1_OneRowPerScoredTicker ==
  last.op = "score_portfolio" =>
    \A i \in 1..Len(last.calls) :
      (HasText(db, last.calls[i].ticker) /\ last.calls[i].ret # <<>>) =>
        RowsOf(db.esg_scores.rows, last.calls[i].ticker) = last.calls[i].ret

\* C2: every score record the scorer returns, the neutral one included, and
\* every row of esg_scores has overall_esg_score equal to
\* 0.4 * environmental + 0.3 * social + 0.3 * governance.
C2_OverallIsWeightedSum ==
  /\ \A i \in 1..Len(db.esg_scores.rows) : IsWeighted(db.esg_scores.rows[i])
  /\ IsScoring => \A i \in 1..Len(last.ret) : IsWeighted(last.ret[i])

\* a scoring returned and persisted a record whose scores are not all equal
C2_Witness ==
  /\ last.op = "score_company"
  /\ last.ret # <<>>
  /\ last.ret[1].environmental_score > last.ret[1].social_score
  /\ last.ret[1].social_score > 0
  /\ RowsOf(db.esg_scores.rows, last.args[1]) = last.ret

\* the number of positions at which keyword starts in text
Occurrences(keyword, text) ==
  Cardinality({i \in 1..(Len(text) - Len(keyword) + 1) :
                 /\ text[i] = keyword[1]
                 /\ SubSeq(text, i, i + Len(keyword) - 1) = keyword})

\* the number of occurrences of the keywords in the text, each one counted
Hits(keywords, text_lower) ==
  SumSeq([k \in 1..Len(keywords) |-> Occurrences(keywords[k], text_lower)])

\* ten per occurrence of a keyword, 100 at most
ScoreByOccurrences(keywords, text) == Min(100, 10 * Hits(keywords, lower(text)))

\* C3: each classifier returns min(100, 10 * hits), hits being the number of
\* case-insensitive occurrences of the dimension's keywords in the blob, a
\* keyword that occurs k times counting k times.
C3_ScoreCountsOccurrences ==
  /\ classified.environmental # -1 =>
       classified.environmental = ScoreByOccurrences(env_keywords, blob)
  /\ classified.social # -1 =>
       classified.social = ScoreByOccurrences(social_keywords, blob)
  /\ classified.governance # -1 =>
       classified.governance = ScoreByOccurrences(governance_keywords, blob)

\* C4: score_company for a ticker with no reports row and no news_content
\* row, or with whitespace only, returns the neutral record of 50s: not
\* None, and no exception (the store accepting the connection).
C4_NoTextIsNeutral ==
  (/\ last.op = "score_company"
   /\ last.error # "connect"
   /\ NoText(db, last.args[1]))
  => /\ last.ret = <<NeutralScores(last.args[1])>>
     /\ ~last.raised

RECURSIVE NonNullResults(_, _)
\* the non-null returns of the calls from position i on, in order
NonNullResults(calls, i) ==
  IF i > Len(calls) THEN <<>>
  ELSE calls[i].ret \o NonNullResults(calls, i + 1)

\* C5: score_portfolio calls score_company once per ticker of its list, in
\* the order of the list, does not stop at a ticker that fails, raises
\* nothing, and returns the non-null results in that order.
C5_PortfolioScoresEveryTicker ==
  last.op = "score_portfolio" =>
    /\ ~last.raised
    /\ Len(last.calls) = Len(last.args[1])
    /\ \A i \in 1..Len(last.calls) : last.calls[i].ticker = last.args[1][i]
    /\ last.ret = NonNullResults(last.calls, 1)

\* the first ticker of two failed, the second was scored and is the result
C5_Witness ==
  /\ last.op = "score_portfolio"
  /\ Len(last.args[1]) = 2
  /\ Len(last.calls) = 2
  /\ last.calls[1].ret = <<>>
  /\ last.calls[2].ret # <<>>
  /\ last.ret = last.calls[2].ret

\* C6: a failure inside score_company (store unreachable, table missing,
\* malformed row, failed write) is caught: the call returns None and
\* raises nothing.
C6_FailureReturnsNone ==
  (last.op = "score_company" /\ last.error # "none") =>
    (last.ret = <<>> /\ ~last.raised)

\* the write of the scores failed and the call returned None
C6_Witness ==
  /\ last.op = "score_company"
  /\ last.error = "to_sql"
  /\ last.ret = <<>>

\* C7: a run of generate_company_comparisons that completes emits exactly
\* one Comparison row for every ticker that has a row in esg_scores.
C7_OneComparisonPerScoredTicker ==
  (IsGenerate /\ last.error = "none") =>
    \A i \in 1..Len(db.esg_scores.rows) :
      Len(RowsOf(last.ret, db.esg_scores.rows[i].ticker)) = 1

\* difference == company - benchmark in the four dimensions
DifferencesHold(c) ==
  /\ REq(c.env_difference, RSub(c.company_env_score, c.sector_env_benchmark))
  /\ REq(c.social_difference,
         RSub(c.company_social_score, c.sector_social_benchmark))
  /\ REq(c.gov_difference, RSub(c.company_gov_score, c.sector_gov_benchmark))
  /\ REq(c.overall_difference,
         RSub(c.company_overall_score, c.sector_overall_benchmark))

\* the company scores of the row are those of the ticker's esg_scores row
CompanyScoresHold(c, scores) ==
  \E i \in 1..Len(scores) :
    /\ scores[i].ticker = c.ticker
    /\ c.company_env_score = FromInt(scores[i].environmental_score)
    /\ c.company_social_score = FromInt(scores[i].social_score)
    /\ c.company_gov_score = FromInt(scores[i].governance_score)
    /\ c.company_overall_score = scores[i].overall_esg_score

\* C8: in every Comparison row, returned or persisted, each difference is
\* the company score minus the benchmark of the row, and the company scores
\* of a returned row are those of the ticker's esg_scores row.
C8_DifferenceIsCompanyMinusBenchmark ==
  /\ \A i \in 1..Len(db.company_benchmark_comparisons.rows) :
       DifferencesHold(db.company_benchmark_comparisons.rows[i])
  /\ IsGenerate =>
       \A i \in 1..Len(last.ret) :
         /\ DifferencesHold(last.ret[i])
         /\ CompanyScoresHold(last.ret[i], db.esg_scores.rows)

\* a run returned and persisted a row whose company is off its benchmark
C8_Witness ==
  /\ IsGenerate
  /\ last.ret # <<>>
  /\ last.ret[1].overall_difference.num # 0
  /\ last.ret[1].env_difference.num # 0
  /\ db.company_benchmark_comparisons.rows = last.ret

\* the scored companies whose sector has no row in sector_benchmarks
AbsentSectorRows(st) ==
  SelectSeq(Merge(st.esg_scores.rows, st.companies.rows),
            LAMBDA m : SectorRows(st.sector_benchmarks.rows, m.sector) = <<>>)

\* the row is compared against the means over all sectors
UsesMeans(c, benchmarks) ==
  /\ REq(c.sector_env_benchmark, ColumnMeans(benchmarks).environmental_benchmark)
  /\ REq(c.sector_social_benchmark, ColumnMeans(benchmarks).social_benchmark)
  /\ REq(c.sector_gov_benchmark, ColumnMeans(benchmarks).governance_benchmark)
  /\ REq(c.sector_overall_benchmark, ColumnMeans(benchmarks).overall_benchmark)

\* C9: a scored company whose sector is absent from sector_benchmarks is
\* compared against the column means over all sectors; the absence is not
\* an error and does not empty the result (the store failing nothing).
C9_AbsentSectorUsesMeans ==
  (/\ IsGenerate
   /\ last.error \notin {"connect", "load_sector_benchmarks", "to_sql"}
   /\ db.sector_benchmarks.exists)
  => \A i \in 1..Len(AbsentSectorRows(db)) :
       \E j \in 1..Len(last.ret) :
         /\ last.ret[j].ticker = AbsentSectorRows(db)[i].ticker
         /\ last.ret[j].sector = AbsentSectorRows(db)[i].sector
         /\ UsesMeans(last.ret[j], db.sector_benchmarks.rows)

\* C10: a run of generate_company_comparisons that fails during the join
\* or the computation returns an empty result and leaves the
\* company_benchmark_comparisons table as it was.
C10_FailedRunLeavesTable ==
  [][(last'.op = "generate_company_comparisons" /\ last'.error \in JoinAndComputation)
       => /\ last'.ret = <<>>
          /\ ~last'.raised
          /\ db'.company_benchmark_comparisons = db.company_benchmark_comparisons
    ]_vars

\* a run failed before the write and the rows of an earlier run are there
C10_Witness ==
  /\ IsGenerate
  /\ last.error \in JoinAndComputation
  /\ last.ret = <<>>
  /\ db.company_benchmark_comparisons.exists
  /\ db.company_benchmark_comparisons.rows # <<>>

\* the Comparison rows of the scores, companies and benchmarks of a store
ExpectedComparisons(st) ==
  [i \in 1..Len(Merge(st.esg_scores.rows, st.companies.rows)) |->
     Comparison(Merge(st.esg_scores.rows, st.companies.rows)[i],
                BenchmarkFor(st.sector_benchmarks.rows,
                             Merge(st.esg_scores.rows, st.companies.rows)[i].sector))]

\* C11: after a successful run of generate_company_comparisons the
\* company_benchmark_comparisons table holds exactly the rows the run
\* returned, which are those of the present scores, companies and
\* benchmarks: no row of an earlier run survives.
C11_ComparisonsFullyReplaced ==
  (IsGenerate /\ last.error = "none") =>
    /\ db.company_benchmark_comparisons = Table(last.ret)
    /\ last.ret = ExpectedComparisons(db)

\* a run succeeded on benchmarks of a generation with draws off the means
C11_Witness ==
  /\ IsGenerate
  /\ last.error = "none"
  /\ last.ret # <<>>
  /\ db.company_benchmark_comparisons.rows = last.ret
  /\ \E i \in 1..Len(db.sector_benchmarks.rows) :
       db.sector_benchmarks.rows[i].social_benchmark.num = 0

\* 0 <= r <= 100
InRange(r) == 0 <= r.num /\ r.num <= 100 * r.den

\* C12: whatever the draws, below 0 and above 100 included, the
\* environmental, social, governance and overall benchmark of every
\* sector_benchmarks row lie in [0,100].
C12_BenchmarksInRange ==
  \A i \in 1..Len(db.sector_benchmarks.rows) :
    /\ InRange(db.sector_benchmarks.rows[i].environmental_benchmark)
    /\ InRange(db.sector_benchmarks.rows[i].social_benchmark)
    /\ InRange(db.sector_benchmarks.rows[i].governance_benchmark)
    /\ InRange(db.sector_benchmarks.rows[i].overall_benchmark)

\* a generation whose draws left [0,100] on both sides was written
C12_Witness ==
  /\ last.op = "load_sector_benchmarks"
  /\ last.error = "none"
  /\ \E i \in 1..Len(db.sector_benchmarks.rows) :
       /\ db.sector_benchmarks.rows[i].environmental_benchmark = FromInt(100)
       /\ db.sector_benchmarks.rows[i].social_benchmark = FromInt(0)

\* overall == 0.4 * environmental + 0.3 * social + 0.3 * governance
IsWeightedBenchmark(b) ==
  LET e == b.environmental_benchmark
      s == b.social_benchmark
      g == b.governance_benchmark
  IN  10 * b.overall_benchmark.num * e.den * s.den * g.den =
        b.overall_benchmark.den *
          (4 * e.num * s.den * g.den + 3 * s.num * e.den * g.den
             + 3 * g.num * e.den * s.den)

\* C13: every sector_benchmarks row has overall_benchmark equal to
\* 0.4 * environmental + 0.3 * social + 0.3 * governance of the clamped
\* benchmarks of the row.
C13_OverallBenchmarkIsWeightedSum ==
  \A i \in 1..Len(db.sector_benchmarks.rows) :
    IsWeightedBenchmark(db.sector_benchmarks.rows[i])

\* the Technology row of a generation whose draws were clamped: 100, 0, 74
C13_Witness ==
  \E i \in 1..Len(db.sector_benchmarks.rows) :
    /\ db.sector_benchmarks.rows[i].sector = "Technology"
    /\ db.sector_benchmarks.rows[i].environmental_benchmark = FromInt(100)
    /\ db.sector_benchmarks.rows[i].social_benchmark = FromInt(0)
    /\ REq(db.sector_benchmarks.rows[i].overall_benchmark, Rat(622, 10))

\* C14: the sector_benchmarks table, once written, holds exactly eleven
\* rows, one for each of the eleven sectors and none twice, and after a
\* successful load_sector_benchmarks they are the rows of that call alone.
C14_ElevenSectorRows ==
  /\ db.sector_benchmarks.exists =>
       /\ Len(db.sector_benchmarks.rows) = Len(sectors)
       /\ \A k \in 1..Len(sectors) :
            Len(SectorRows(db.sector_benchmarks.rows, sectors[k])) = 1
  /\ (last.op = "load_sector_benchmarks" /\ last.error = "none") =>
       db.sector_benchmarks = Table(last.ret)

\* a generation was written and is the whole table
C14_Witness ==
  /\ last.op = "load_sector_benchmarks"
  /\ last.error = "none"
  /\ Len(last.ret) = Len(sectors)
  /\ db.sector_benchmarks.rows = last.ret
  /\ db.company_benchmark_comparisons.exists

\* C15: after any sequence of integrate_company_data calls the companies
\* table holds at most one row per ticker, and after an integration that
\* found a profile that row is the profile of this integration.
C15_OneCompanyRowPerTicker ==
  /\ \A t \in Tickers : Len(RowsOf(db.companies.rows, t)) <= 1
  /\ (/\ last.op = "integrate_company_data"
      /\ last.ret = <<TRUE>>
      /\ last.args[2].has_info)
     => RowsOf(db.companies.rows, last.args[1]) =
          <<[ticker |-> last.args[1], sector |-> last.args[2].sector]>>

\* C16: after any sequence of integrate_company_data calls the reports
\* table holds at most one row per ticker, and after an integration that
\* found a report that row holds the report text of this integration.
C16_OneReportRowPerTicker ==
  /\ \A t \in Tickers : Len(RowsOf(db.reports.rows, t)) <= 1
  /\ (/\ last.op = "integrate_company_data"
      /\ last.ret = <<TRUE>>
      /\ last.args[2].has_report)
     => RowsOf(db.reports.rows, last.args[1]) =
          <<[ticker |-> last.args[1], report_text |-> last.args[2].report_text]>>

\* s is the beginning of t
IsPrefix(s, t) == Len(s) <= Len(t) /\ SubSeq(t, 1, Len(s)) = s

\* the text score_company analyses when it uses every news_content row
TextOfAllRows(st, ticker) ==
  (IF RowsOf(st.reports.rows, ticker) # <<>>
   THEN RowsOf(st.reports.rows, ticker)[1].report_text ELSE <<>>)
  \o <<" ">> \o
  (IF RowsOf(st.news_content.rows, ticker) # <<>>
   THEN JoinWith(<<" ">>, [i \in 1..Len(RowsOf(st.news_content.rows, ticker)) |->
                            RowsOf(st.news_content.rows, ticker)[i].content])
   ELSE <<>>)

\* C17: news_content is append-only: a call of integrate_company_data keeps
\* the rows the table had, unchanged and in place, and only adds rows after
\* them; and the keyword scores score_company returns are those of the text
\* made of the report and all the news_content rows of the ticker.
C17_NewsContentAppendOnly ==
  /\ [][last'.op = "integrate_company_data" =>
          /\ IsPrefix(db.news_content.rows, db'.news_content.rows)
          /\ db.news_content.exists => db'.news_content.exists]_vars
  /\ [](( /\ last.op = "score_company"
          /\ last.ret # <<>>
          /\ last.ret # <<NeutralScores(last.args[1])>> )
        => /\ last.ret[1].environmental_score =
                classify_text_environmental(TextOfAllRows(db, last.args[1]))
           /\ last.ret[1].social_score =
                classify_text_social(TextOfAllRows(db, last.args[1]))
           /\ last.ret[1].governance_score =
                classify_text_governance(TextOfAllRows(db, last.args[1])))

\* a ticker with two news_content rows of two integrations was scored
C17_Witness ==
  /\ last.op = "score_company"
  /\ last.ret # <<>>
  /\ Len(RowsOf(db.news_content.rows, last.args[1])) = 2
  /\ last.ret[1].environmental_score > 0

\* the position of the first row of the ticker, 0 if there is none
IndexOf(rows, ticker) ==
  IF RowsOf(rows, ticker) = <<>> THEN 0
  ELSE CHOOSE i \in 1..Len(rows) :
         rows[i].ticker = ticker /\ \A j \in 1..(i - 1) : rows[j].ticker # ticker

\* C18: a successful Add Position for ticker t with shares s and price p
\* leaves the portfolio table with exactly one row for t, holding (s, p),
\* and every other ticker's row as it was; a row t had is updated in place,
\* a missing one is appended at the end; and the portfolio never has two
\* rows for a ticker.
C18_AddPositionUpserts ==
  /\ [][(last'.op = "add_position" /\ last'.error = "none") =>
          /\ db'.portfolio.exists
          /\ RowsOf(db'.portfolio.rows, last'.args[1]) =
               <<[ticker |-> last'.args[1], shares |-> last'.args[2],
                  purchase_price |-> last'.args[3]]>>
          /\ \A u \in Tickers \ {last'.args[1]} :
               RowsOf(db'.portfolio.rows, u) = RowsOf(db.portfolio.rows, u)
          /\ IF RowsOf(db.portfolio.rows, last'.args[1]) # <<>>
             THEN /\ Len(db'.portfolio.rows) = Len(db.portfolio.rows)
                  /\ IndexOf(db'.portfolio.rows, last'.args[1]) =
                       IndexOf(db.portfolio.rows, last'.args[1])
             ELSE /\ Len(db'.portfolio.rows) = Len(db.portfolio.rows) + 1
                  /\ IndexOf(db'.portfolio.rows, last'.args[1]) =
                       Len(db'.portfolio.rows)
       ]_vars
  /\ [](\A t \in Tickers : Len(RowsOf(db.portfolio.rows, t)) <= 1)

\* the first of two positions was submitted again and kept its place
C18_Witness ==
  /\ last.op = "add_position"
  /\ last.error = "none"
  /\ Len(db.portfolio.rows) = 2
  /\ db.portfolio.rows[1].ticker = last.args[1]
  /\ db.portfolio.rows[1].shares = 250
  /\ db.portfolio.rows[1].purchase_price = 1999

\* the Comparison row holds the present scores of its ticker and the present
\* benchmarks of its sector
AgreesWith(c, st) ==
  /\ CompanyScoresHold(c, st.esg_scores.rows)
  /\ st.sector_benchmarks.exists
  /\ LET bench == BenchmarkFor(st.sector_benchmarks.rows, c.sector)
     IN  /\ REq(c.sector_env_benchmark, bench.environmental_benchmark)
         /\ REq(c.sector_social_benchmark, bench.social_benchmark)
         /\ REq(c.sector_gov_benchmark, bench.governance_benchmark)
         /\ REq(c.sector_overall_benchmark, bench.overall_benchmark)

\* C19: when a run of Run ESG Analysis has stopped between two table
\* writes, then after the next run that goes to its end every row of
\* company_benchmark_comparisons agrees with the esg_scores and
\* sector_benchmarks tables as they are: no stale row remains.
C19_NextRunRepairsStaleRows ==
  [][(/\ last.op = "run_analysis"
      /\ last.raised
      /\ last'.op = "run_analysis"
      /\ ~last'.raised)
     => \A i \in 1..Len(db'.company_benchmark_comparisons.rows) :
          AgreesWith(db'.company_benchmark_comparisons.rows[i], db')]_vars

\* C20: no operation of the scoring and benchmark core (score_company,
\* score_portfolio, load_sector_benchmarks, generate_company_comparisons)
\* lets an error reach its caller.
C20_CoreNeverRaises ==
  last.op \in {"score_company", "score_portfolio", "load_sector_benchmarks",
               "generate_company_comparisons"}
    => ~last.raised

\* C21: score_company for a ticker whose report text names carbon, emission
\* and renewable once each, no social or governance keyword, and which has
\* no news (the store taking the connection and the write) returns
\* environmental 30, social 0, governance 0, overall 12 and persists that row.
C21_ThreeEnvironmentalKeywords ==
  (/\ last.op = "score_company"
   /\ last.error \notin {"connect", "to_sql"}
   /\ RowsOf(db.reports.rows, last.args[1]) =
        <<[ticker |-> last.args[1], report_text |-> TextCarbonReport]>>
   /\ RowsOf(db.news_content.rows, last.args[1]) = <<>>)
  => /\ last.ret # <<>>
     /\ last.ret[1].environmental_score = 30
     /\ last.ret[1].social_score = 0
     /\ last.ret[1].governance_score = 0
     /\ REq(last.ret[1].overall_esg_score, FromInt(12))
     /\ RowsOf(db.esg_scores.rows, last.args[1]) = last.ret

\* C22: the overall score of a scoring does not depend on the sentiment
\* judgments: the same scoring under any other sentiment model, or with the
\* sentiment pipeline failing, returns the same environmental, social,
\* governance and overall scores; the sentiment score is the one computed
\* from the text and is stored in the row.
C22_OverallIgnoresSentiment ==
  (/\ last.op = "score_company"
   /\ last.error = "none"
   /\ HasText(db, last.args[1]))
  => /\ RowsOf(db.esg_scores.rows, last.args[1]) = last.ret
     /\ \E positive \in SentimentModels, analyzer_raises \in BOOLEAN :
          last.ret[1].sentiment_score =
            analyze_sentiment(TextOfAllRows(db, last.args[1]), positive,
                              analyzer_raises)
     /\ \A positive \in SentimentModels, analyzer_raises \in BOOLEAN :
          LET other == score_company(db, last.args[1], "none", positive,
                                     analyzer_raises, FALSE).ret[1]
          IN  /\ other.environmental_score = last.ret[1].environmental_score
              /\ other.social_score = last.ret[1].social_score
              /\ other.governance_score = last.ret[1].governance_score
              /\ other.overall_esg_score = last.ret[1].overall_esg_score

\* a scoring persisted a row whose sentiment score another sentiment model
\* would have set differently, the overall score being the same
C22_Witness ==
  /\ last.op = "score_company"
  /\ last.error = "none"
  /\ HasText(db, last.args[1])
  /\ RowsOf(db.esg_scores.rows, last.args[1]) = last.ret
  /\ last.ret[1].sentiment_score.num > 0
  /\ \E positive \in SentimentModels :
       LET other == score_company(db, last.args[1], "none", positive,
                                  FALSE, FALSE).ret[1]
       IN  /\ ~REq(other.sentiment_score, last.ret[1].sentiment_score)
           /\ other.overall_esg_score = last.ret[1].overall_esg_score

C24_RunStepsInOrder ==
  [][last'.op = "run_analysis" =>
       LET tickers == last'.args[1]
           scored  == score_portfolio(db, tickers, [i \in 1..Len(tickers) |-> "none"],
                                      {}, FALSE, FALSE).st
           generations ==
             {load_sector_benchmarks(scored, draw, "none", FALSE).st.sector_benchmarks :
                draw \in Draws}
       IN  /\ last'.error = "after_scoring" => db' = scored
           /\ last'.error = "after_benchmarks" =>
                /\ db'.sector_benchmarks \in generations
                /\ db' = [scored EXCEPT !.sector_benchmarks = db'.sector_benchmarks]
           /\ (~last'.raised /\ last'.error = "none") =>
                /\ db'.esg_scores = scored.esg_scores
                /\ db'.sector_benchmarks \in generations
                /\ last'.ret = ExpectedComparisons(db')
                /\ db'.company_benchmark_comparisons.rows = last'.ret]_vars

\* a run over a portfolio of two tickers went to its end and wrote the
\* comparisons of the scores and the benchmarks it had written
C24_Witness ==
  /\ last.op = "run_analysis"
  /\ ~last.raised
  /\ last.error = "none"
  /\ Len(last.args[1]) = 2
  /\ last.ret # <<>>
  /\ db.esg_scores.rows # <<>>
  /\ last.ret = ExpectedComparisons(db)
  /\ db.company_benchmark_comparisons.rows = last.ret

\* the text score_company would analyse if it took the report row of the
\* latest ingestion
TextOfLatestReport(st, ticker) ==
  (IF RowsOf(st.reports.rows, ticker) # <<>>
   THEN RowsOf(st.reports.rows, ticker)[Len(RowsOf(st.reports.rows, ticker))].report_text
   ELSE <<>>)
  \o <<" ">> \o
  (IF RowsOf(st.news_content.rows, ticker) # <<>>
   THEN JoinWith(<<" ">>, [i \in 1..Len(RowsOf(st.news_content.rows, ticker)) |->
                            RowsOf(st.news_content.rows, ticker)[i].content])
   ELSE <<>>)

\* C25: a scoring of a ticker scores the report text of the ticker's latest
\* ingestion: after a re-ingestion with a new report text the keyword scores
\* returned are those of the new text, not of an earlier one.
C25_ScoresLatestReport ==
  (/\ last.op = "score_company"
   /\ last.error = "none"
   /\ HasText(db, last.args[1]))
  => LET text == TextOfLatestReport(db, last.args[1])
     IN  /\ last.ret[1].environmental_score = classify_text_environmental(text)
         /\ last.ret[1].social_score = classify_text_social(text)
         /\ last.ret[1].governance_score = classify_text_governance(text)

\* C26: a call of score_company that returns the neutral record (the ticker
\* has no text) or None (the call failed) writes nothing: every table of the
\* store, esg_scores included, is as it was before the call.
C26_NeutralAndNullWriteNothing ==
  [][(/\ last'.op = "score_company"
      /\ \/ last'.ret = <<>>
         \/ last'.error = "none" /\ NoText(db, last'.args[1]))
     => db' = db]_vars

\* C27: generate_company_comparisons regenerates the sector benchmarks only
\* when the sector_benchmarks table cannot be read.  With the table readable
\* the call leaves it as it is and compares against its rows; with the table
\* missing, a call that got past its reads and the regeneration leaves a
\* table of one row per sector.
C27_RegeneratesOnlyWhenUnreadable ==
  [][last'.op = "generate_company_comparisons" =>
       /\ db.sector_benchmarks.exists =>
            /\ db'.sector_benchmarks = db.sector_benchmarks
            /\ last'.error # "load_sector_benchmarks"
            /\ \A i \in 1..Len(last'.ret) : AgreesWith(last'.ret[i], db)
       /\ (/\ ~db.sector_benchmarks.exists
           /\ last'.error \notin {"connect", "read_esg_scores", "read_companies",
                                  "load_sector_benchmarks"}) =>
            /\ db'.sector_benchmarks.exists
            /\ Len(db'.sector_benchmarks.rows) = Len(sectors)]_vars

\* a call compared the scored companies with the rows of a sector_benchmarks
\* table that holds one generation of benchmarks
C27_Witness ==
  /\ IsGenerate
  /\ last.error = "none"
  /\ last.ret # <<>>
  /\ db.sector_benchmarks.exists
  /\ Len(db.sector_benchmarks.rows) = Len(sectors)
  /\ \A i \in 1..Len(last.ret) : AgreesWith(last.ret[i], db)

\* C28: when score_company has returned, on the scored path, the neutral
\* path or the error path, no connection it opened is open.
C28_ConnectionsClosedOnReturn ==
  last.op = "score_company" => last.open = 0

=============================================================================
